---- MODULE Spec2Model ----
(***************************************************************************)
(* Amber Restart codec (src/src/formats/AmberRestart.cpp) over the NetCDF  *)
(* style container NcFile.  One path on disk, one handle at a time.        *)
(* Floating point values are modelled by integers; optional values by      *)
(* sequences of length 0 or 1.                                             *)
(***************************************************************************)
EXTENDS Integers, Sequences, FiniteSets, TLC

VARIABLES file_, handle, step_done_, validated_, frame, last, written, incomplete

vars == <<file_, handle, step_done_, validated_, frame, last, written, incomplete>>

\* ------------------------------------------------------------------ bounds
MaxAtoms == 2
MaxBase == 0

\* --------------------------------------------------------- error messages
NoError == "none"
InvalidFile == "invalid AMBER Restart file"
AppendUnsupported == "append mode ('a') is not supported with AMBER Restart format"
CompressionUnsupported == "compression is not supported with NetCDF format"
OneFrameRead == "AMBER Restart format only supports reading one frame"
OneFrameWrite == "AMBER Restart format only supports writing one frame"
LookupError == "lookup error"
BoundsError == "bounds error"
PhaseError == "phase error"
IOError == "io error"

\* ------------------------------------------------ container (NcFile)
Product(sizes) == IF Len(sizes) = 0 THEN 1
                  ELSE IF Len(sizes) = 1 THEN sizes[1]
                  ELSE sizes[1] * sizes[2]

EmptyContainer(m) ==
    [mode |-> m, phase |-> "DEFINE",
     gattrs |-> <<>>, dims |-> <<>>, vars |-> <<>>]

NcVariable(type, dimnames) ==
    [type |-> type, dims |-> dimnames, units |-> <<>>, scale |-> <<>>, data |-> <<>>]

variable_exists(f, name) == name \in DOMAIN f.vars

dimension_exists(f, name) == name \in DOMAIN f.dims

\* global_attribute(name): the string, or absent (empty sequence)
global_attribute(f, name) ==
    IF name \in DOMAIN f.gattrs THEN <<f.gattrs[name]>> ELSE <<>>

\* dimension(name): only evaluated where the dimension exists; callers test
\* dimension_exists first and raise LookupError otherwise
dimension(f, name) == f.dims[name]

optional_dimension(f, name, default) ==
    IF name \in DOMAIN f.dims THEN f.dims[name] ELSE default

attribute_exists(v, name) ==
    IF name = "scale_factor" THEN Len(v.scale) = 1 ELSE Len(v.units) = 1

float_attribute(v, name) == v.scale[1]

\* sizes of the declared dimensions of a variable, in declaration order
Shape(f, name) ==
    [i \in 1..Len(f.vars[name].dims) |-> f.dims[f.vars[name].dims[i]]]

\* One mutation of the container.  The result carries the container and the
\* error raised ("none" when the operation went through).
Ok(f) == [file |-> f, err |-> NoError]
Fail(f, e) == [file |-> f, err |-> e]

set_nc_mode(f, m) ==
    IF f.phase = m THEN Ok(f)
    ELSE IF m = "DEFINE" THEN Fail(f, PhaseError)
    ELSE Ok([f EXCEPT !.phase = m])

add_global_attribute(f, name, value) ==
    IF f.phase # "DEFINE" THEN Fail(f, PhaseError)
    ELSE Ok([f EXCEPT !.gattrs =
                [n \in DOMAIN f.gattrs \cup {name} |->
                    IF n = name THEN value ELSE f.gattrs[n]]])

add_dimension(f, name, size) ==
    IF f.phase # "DEFINE" THEN Fail(f, PhaseError)
    ELSE Ok([f EXCEPT !.dims =
                [n \in DOMAIN f.dims \cup {name} |->
                    IF n = name THEN size ELSE f.dims[n]]])

add_variable(f, name, type, dimnames) ==
    IF f.phase # "DEFINE" THEN Fail(f, PhaseError)
    ELSE IF \E i \in 1..Len(dimnames) : dimnames[i] \notin DOMAIN f.dims
    THEN Fail(f, LookupError)
    ELSE Ok([f EXCEPT !.vars =
                [n \in DOMAIN f.vars \cup {name} |->
                    IF n = name THEN NcVariable(type, dimnames) ELSE f.vars[n]]])

add_string_attribute(f, var, name, value) ==
    IF f.phase # "DEFINE" THEN Fail(f, PhaseError)
    ELSE Ok([f EXCEPT !.vars[var].units = <<value>>])

\* variable<T>(name): lookup error if absent or of another element type
variable(f, name, type) ==
    IF name \in DOMAIN f.vars /\ f.vars[name].type = type
    THEN Ok(f) ELSE Fail(f, LookupError)

\* accessor.add(start, count, data) with start = 0
var_add(f, name, count, data) ==
    IF f.mode = "r" THEN Fail(f, IOError)
    ELSE IF f.phase # "DATA" THEN Fail(f, PhaseError)
    ELSE IF count # Shape(f, name) THEN Fail(f, BoundsError)
    ELSE Ok([f EXCEPT !.vars[name].data = data])

\* accessor.add(string...) of the label variables
var_add_labels(f, name, labels) ==
    IF f.mode = "r" THEN Fail(f, IOError)
    ELSE IF f.phase # "DATA" THEN Fail(f, PhaseError)
    ELSE Ok([f EXCEPT !.vars[name].data = labels])

\* accessor.get(start, count) with start = 0: the stored values
var_get(f, name) == f.vars[name].data

\* get(start, count) succeeds when the container is in DATA phase and count
\* lies within the declared shape
var_get_ok(f, name, count) ==
    /\ f.phase = "DATA"
    /\ Len(count) = Len(Shape(f, name))
    /\ \A i \in 1..Len(count) : count[i] <= Shape(f, name)[i]
    /\ Len(f.vars[name].data) = Product(count)

\* ------------------------------------------------ Frame and UnitCell
\* UnitCell(a, b, c, alpha, beta, gamma); UnitCell() is the empty cell
UnitCell(a, b, c, alpha, beta, gamma) == <<a, b, c, alpha, beta, gamma>>
DefaultCell == UnitCell(0, 0, 0, 90, 90, 90)

Vector3D(x, y, z) == <<x, y, z>>

\* Frame(): no atoms, no velocities, empty cell
EmptyFrame == [cell |-> DefaultCell, positions |-> <<>>, velocities |-> <<>>]

ResizeArray(array, n) ==
    [i \in 1..n |-> IF i <= Len(array) THEN array[i] ELSE Vector3D(0, 0, 0)]

set_cell(fr, cell) == [fr EXCEPT !.cell = cell]

resize(fr, n) ==
    [fr EXCEPT !.positions = ResizeArray(fr.positions, n),
               !.velocities = IF Len(fr.velocities) = 1
                              THEN <<ResizeArray(fr.velocities[1], n)>>
                              ELSE <<>>]

add_velocities(fr) ==
    IF Len(fr.velocities) = 1 THEN fr
    ELSE [fr EXCEPT !.velocities = <<ResizeArray(<<>>, Len(fr.positions))>>]

\* ------------------------------------------------ codec: validation
NoAtoms == -1

\* is_valid that only rejects a spatial dimension smaller than 3
is_valid_spatial_min(f, natoms) ==
    LET writing == (natoms # NoAtoms) IN
    IF global_attribute(f, "Conventions") # <<"AMBERRESTART">> THEN "false"
    ELSE IF global_attribute(f, "ConventionVersion") # <<"1.0">> THEN "false"
    ELSE IF ~dimension_exists(f, "spatial") THEN LookupError
    ELSE IF dimension(f, "spatial") < 3 THEN "false"
    ELSE IF writing /\ ~dimension_exists(f, "atom") THEN LookupError
    ELSE IF writing /\ dimension(f, "atom") # natoms THEN "false"
    ELSE "true"

\* is_valid: "true" or "false" as returned, or the lookup error raised by
\* dimension() on a dimension that does not exist
is_valid(f, natoms) ==
    LET writing == (natoms # NoAtoms) IN
    IF global_attribute(f, "Conventions") # <<"AMBERRESTART">> THEN "false"
    ELSE IF global_attribute(f, "ConventionVersion") # <<"1.0">> THEN "false"
    ELSE IF ~dimension_exists(f, "spatial") THEN LookupError
    ELSE IF dimension(f, "spatial") # 3 THEN "false"
    ELSE IF writing /\ ~dimension_exists(f, "atom") THEN LookupError
    ELSE IF writing /\ dimension(f, "atom") # natoms THEN "false"
    ELSE "true"

\* ------------------------------------------------ codec: reading
Scaled(v, data) ==
    IF attribute_exists(v, "scale_factor")
    THEN [j \in 1..Len(data) |-> data[j] * float_attribute(v, "scale_factor")]
    ELSE data

\* read_cell that applies the scale factor of cell_lengths to the angles too
read_cell_one_factor(f) ==
    IF ~variable_exists(f, "cell_lengths") \/ ~variable_exists(f, "cell_angles")
    THEN [err |-> NoError, cell |-> DefaultCell]
    ELSE IF optional_dimension(f, "cell_spatial", 0) # 3
            \/ optional_dimension(f, "cell_angular", 0) # 3
    THEN [err |-> NoError, cell |-> DefaultCell]
    ELSE IF ~var_get_ok(f, "cell_lengths", <<3>>) \/ ~var_get_ok(f, "cell_angles", <<3>>)
    THEN [err |-> BoundsError, cell |-> DefaultCell]
    ELSE LET length_var == f.vars["cell_lengths"]
             length == Scaled(length_var, var_get(f, "cell_lengths"))
             angles == Scaled(length_var, var_get(f, "cell_angles"))
         IN [err |-> NoError,
             cell |-> UnitCell(length[1], length[2], length[3],
                               angles[1], angles[2], angles[3])]

\* read_cell that takes an absent cell dimension to have size 3
read_cell_default_three(f) ==
    IF ~variable_exists(f, "cell_lengths") \/ ~variable_exists(f, "cell_angles")
    THEN [err |-> NoError, cell |-> DefaultCell]
    ELSE IF optional_dimension(f, "cell_spatial", 3) # 3
            \/ optional_dimension(f, "cell_angular", 3) # 3
    THEN [err |-> NoError, cell |-> DefaultCell]
    ELSE IF ~var_get_ok(f, "cell_lengths", <<3>>) \/ ~var_get_ok(f, "cell_angles", <<3>>)
    THEN [err |-> BoundsError, cell |-> DefaultCell]
    ELSE LET length_var == f.vars["cell_lengths"]
             angles_var == f.vars["cell_angles"]
             length == Scaled(length_var, var_get(f, "cell_lengths"))
             angles == Scaled(angles_var, var_get(f, "cell_angles"))
         IN [err |-> NoError,
             cell |-> UnitCell(length[1], length[2], length[3],
                               angles[1], angles[2], angles[3])]

\* read_cell: the error raised, and the cell returned
read_cell(f) ==
    IF ~variable_exists(f, "cell_lengths") \/ ~variable_exists(f, "cell_angles")
    THEN [err |-> NoError, cell |-> DefaultCell]
    ELSE IF optional_dimension(f, "cell_spatial", 0) # 3
            \/ optional_dimension(f, "cell_angular", 0) # 3
    THEN [err |-> NoError, cell |-> DefaultCell]
    ELSE IF variable(f, "cell_lengths", "double").err # NoError
            \/ variable(f, "cell_angles", "double").err # NoError
    THEN [err |-> LookupError, cell |-> DefaultCell]
    ELSE IF ~var_get_ok(f, "cell_lengths", <<3>>) \/ ~var_get_ok(f, "cell_angles", <<3>>)
    THEN [err |-> BoundsError, cell |-> DefaultCell]
    ELSE LET length_var == f.vars["cell_lengths"]
             angles_var == f.vars["cell_angles"]
             length == Scaled(length_var, var_get(f, "cell_lengths"))
             angles == Scaled(angles_var, var_get(f, "cell_angles"))
         IN [err |-> NoError,
             cell |-> UnitCell(length[1], length[2], length[3],
                               angles[1], angles[2], angles[3])]

Reshape(data, natoms) ==
    [i \in 1..natoms |->
        Vector3D(data[3 * (i - 1) + 1], data[3 * (i - 1) + 2], data[3 * (i - 1) + 3])]

\* read_array: the error raised, and the array filled in on success
read_array(f, name) ==
    IF variable(f, name, "double").err # NoError
    THEN [err |-> LookupError, array |-> <<>>]
    ELSE IF ~dimension_exists(f, "atom")
    THEN [err |-> LookupError, array |-> <<>>]
    ELSE LET natoms == dimension(f, "atom") IN
         IF ~var_get_ok(f, name, <<natoms, 3>>)
         THEN [err |-> BoundsError, array |-> <<>>]
         ELSE [err |-> NoError,
               array |-> Reshape(Scaled(f.vars[name], var_get(f, name)), natoms)]

\* read_step that does not resize the destination frame
read_step_no_resize(f, step, fr) ==
    IF step # 0 THEN [err |-> OneFrameRead, frame |-> fr, done |-> FALSE]
    ELSE LET cell == read_cell(f) IN
    IF cell.err # NoError THEN [err |-> cell.err, frame |-> fr, done |-> FALSE]
    ELSE LET f1 == set_cell(fr, cell.cell) IN
    IF ~dimension_exists(f, "atom") THEN [err |-> LookupError, frame |-> f1, done |-> FALSE]
    ELSE LET pos == read_array(f, "coordinates") IN
    IF pos.err # NoError THEN [err |-> pos.err, frame |-> f1, done |-> FALSE]
    ELSE LET f3 == [f1 EXCEPT !.positions = pos.array] IN
    IF ~variable_exists(f, "velocities") THEN [err |-> NoError, frame |-> f3, done |-> TRUE]
    ELSE LET f4 == add_velocities(f3)
             vel == read_array(f, "velocities") IN
    IF vel.err # NoError THEN [err |-> vel.err, frame |-> f4, done |-> FALSE]
    ELSE [err |-> NoError, frame |-> [f4 EXCEPT !.velocities = <<vel.array>>], done |-> TRUE]

\* read_step that marks the step done before reading anything
read_step_done_first(f, step, fr) ==
    IF step # 0 THEN [err |-> OneFrameRead, frame |-> fr, done |-> FALSE]
    ELSE LET cell == read_cell(f) IN
    IF cell.err # NoError THEN [err |-> cell.err, frame |-> fr, done |-> TRUE]
    ELSE LET f1 == set_cell(fr, cell.cell) IN
    IF ~dimension_exists(f, "atom") THEN [err |-> LookupError, frame |-> f1, done |-> TRUE]
    ELSE LET f2 == resize(f1, dimension(f, "atom"))
             pos == read_array(f, "coordinates") IN
    IF pos.err # NoError THEN [err |-> pos.err, frame |-> f2, done |-> TRUE]
    ELSE LET f3 == [f2 EXCEPT !.positions = pos.array] IN
    IF ~variable_exists(f, "velocities") THEN [err |-> NoError, frame |-> f3, done |-> TRUE]
    ELSE LET f4 == add_velocities(f3)
             vel == read_array(f, "velocities") IN
    IF vel.err # NoError THEN [err |-> vel.err, frame |-> f4, done |-> TRUE]
    ELSE [err |-> NoError, frame |-> [f4 EXCEPT !.velocities = <<vel.array>>], done |-> TRUE]

\* read_step that rejects the step only after the cell was stored
read_step_late_check(f, step, fr) ==
    LET cell == read_cell(f) IN
    IF cell.err # NoError THEN [err |-> cell.err, frame |-> fr, done |-> FALSE]
    ELSE LET f1 == set_cell(fr, cell.cell) IN
    IF step # 0 THEN [err |-> OneFrameRead, frame |-> f1, done |-> FALSE]
    ELSE IF ~dimension_exists(f, "atom") THEN [err |-> LookupError, frame |-> f1, done |-> FALSE]
    ELSE LET f2 == resize(f1, dimension(f, "atom"))
             pos == read_array(f, "coordinates") IN
    IF pos.err # NoError THEN [err |-> pos.err, frame |-> f2, done |-> FALSE]
    ELSE LET f3 == [f2 EXCEPT !.positions = pos.array] IN
    IF ~variable_exists(f, "velocities") THEN [err |-> NoError, frame |-> f3, done |-> TRUE]
    ELSE LET f4 == add_velocities(f3)
             vel == read_array(f, "velocities") IN
    IF vel.err # NoError THEN [err |-> vel.err, frame |-> f4, done |-> FALSE]
    ELSE [err |-> NoError, frame |-> [f4 EXCEPT !.velocities = <<vel.array>>], done |-> TRUE]

\* read_step: error raised, destination frame afterwards, and whether the
\* handler reached `step_done_ = true`
read_step(f, step, fr) ==
    IF step # 0 THEN [err |-> OneFrameRead, frame |-> fr, done |-> FALSE]
    ELSE LET cell == read_cell(f) IN
    IF cell.err # NoError THEN [err |-> cell.err, frame |-> fr, done |-> FALSE]
    ELSE LET f1 == set_cell(fr, cell.cell) IN
    IF ~dimension_exists(f, "atom") THEN [err |-> LookupError, frame |-> f1, done |-> FALSE]
    ELSE LET f2 == resize(f1, dimension(f, "atom"))
             pos == read_array(f, "coordinates") IN
    IF pos.err # NoError THEN [err |-> pos.err, frame |-> f2, done |-> FALSE]
    ELSE LET f3 == [f2 EXCEPT !.positions = pos.array] IN
    IF ~variable_exists(f, "velocities") THEN [err |-> NoError, frame |-> f3, done |-> TRUE]
    ELSE LET f4 == add_velocities(f3)
             vel == read_array(f, "velocities") IN
    IF vel.err # NoError THEN [err |-> vel.err, frame |-> f4, done |-> FALSE]
    ELSE [err |-> NoError, frame |-> [f4 EXCEPT !.velocities = <<vel.array>>], done |-> TRUE]

\* read without the step_done_ check
read_unchecked(f, done, fr) == read_step(f, 0, fr)

\* read: fails fast once the step is done, else read_step(0, frame)
read(f, done, fr) ==
    IF done THEN [err |-> OneFrameRead, frame |-> fr, done |-> FALSE]
    ELSE read_step(f, 0, fr)

\* ------------------------------------------------ codec: writing
STRING_MAXLEN == 10
CHEMFILES_VERSION == "version"
AssertionFailed == "assertion failed"

\* one container call of the writer: kind, target name and two arguments
Op(op, name, a, b) == [op |-> op, name |-> name, a |-> a, b |-> b]

Apply(f, o) ==
    CASE o.op = "set_nc_mode" -> set_nc_mode(f, o.name)
      [] o.op = "add_global_attribute" -> add_global_attribute(f, o.name, o.a)
      [] o.op = "add_dimension" -> add_dimension(f, o.name, o.a)
      [] o.op = "add_variable" -> add_variable(f, o.name, o.a, o.b)
      [] o.op = "add_string_attribute" -> add_string_attribute(f, o.name, o.a, o.b)
      [] o.op = "variable" -> variable(f, o.name, o.a)
      [] o.op = "add" -> var_add(f, o.name, o.a, o.b)
      [] o.op = "add_labels" -> var_add_labels(f, o.name, o.a)
      [] o.op = "assert_is_valid" ->
            IF is_valid(f, o.a) = "true" THEN Ok(f)
            ELSE IF is_valid(f, o.a) = "false" THEN Fail(f, AssertionFailed)
            ELSE Fail(f, is_valid(f, o.a))

\* the calls of a handler, in order, up to the first one that raises
RECURSIVE RunOps(_, _, _)
RunOps(f, ops, k) ==
    IF k > Len(ops) THEN [file |-> f, err |-> NoError, done |-> Len(ops)]
    ELSE LET r == Apply(f, ops[k]) IN
         IF r.err # NoError THEN [file |-> r.file, err |-> r.err, done |-> k - 1]
         ELSE RunOps(r.file, ops, k + 1)

\* declaring velocities whatever the frame carries
velocities_ops_always(with_velocities) ==
    << Op("add_variable", "velocities", "double", <<"atom", "spatial">>),
       Op("add_string_attribute", "velocities", "units", "angstrom/picosecond") >>

velocities_ops(with_velocities) ==
    IF with_velocities
    THEN << Op("add_variable", "velocities", "double", <<"atom", "spatial">>),
            Op("add_string_attribute", "velocities", "units", "angstrom/picosecond") >>
    ELSE << >>

\* initialize that never leaves the definition phase
initialize_stays_in_define(natoms, with_velocities) ==
    << Op("set_nc_mode", "DEFINE", 0, 0),
       Op("add_global_attribute", "Conventions", "AMBERRESTART", 0),
       Op("add_global_attribute", "ConventionVersion", "1.0", 0),
       Op("add_global_attribute", "program", "Chemfiles", 0),
       Op("add_global_attribute", "programVersion", CHEMFILES_VERSION, 0),
       Op("add_dimension", "spatial", 3, 0),
       Op("add_dimension", "atom", natoms, 0),
       Op("add_dimension", "cell_spatial", 3, 0),
       Op("add_dimension", "cell_angular", 3, 0),
       Op("add_dimension", "label", STRING_MAXLEN, 0),
       Op("add_variable", "spatial", "char", <<"spatial">>),
       Op("add_variable", "cell_spatial", "char", <<"cell_spatial">>),
       Op("add_variable", "cell_angular", "char", <<"cell_angular", "label">>),
       Op("add_variable", "coordinates", "double", <<"atom", "spatial">>),
       Op("add_string_attribute", "coordinates", "units", "angstrom"),
       Op("add_variable", "cell_lengths", "double", <<"cell_spatial">>),
       Op("add_string_attribute", "cell_lengths", "units", "angstrom"),
       Op("add_variable", "cell_angles", "double", <<"cell_angular">>),
       Op("add_string_attribute", "cell_angles", "units", "degree") >>
    \o velocities_ops(with_velocities) \o
    << Op("add_labels", "spatial", <<"xyz">>, 0),
       Op("add_labels", "cell_spatial", <<"abc">>, 0),
       Op("add_labels", "cell_angular", <<"alpha", "beta", "gamma">>, 0) >>

initialize(natoms, with_velocities) ==
    << Op("set_nc_mode", "DEFINE", 0, 0),
       Op("add_global_attribute", "Conventions", "AMBERRESTART", 0),
       Op("add_global_attribute", "ConventionVersion", "1.0", 0),
       Op("add_global_attribute", "program", "Chemfiles", 0),
       Op("add_global_attribute", "programVersion", CHEMFILES_VERSION, 0),
       Op("add_dimension", "spatial", 3, 0),
       Op("add_dimension", "atom", natoms, 0),
       Op("add_dimension", "cell_spatial", 3, 0),
       Op("add_dimension", "cell_angular", 3, 0),
       Op("add_dimension", "label", STRING_MAXLEN, 0),
       Op("add_variable", "spatial", "char", <<"spatial">>),
       Op("add_variable", "cell_spatial", "char", <<"cell_spatial">>),
       Op("add_variable", "cell_angular", "char", <<"cell_angular", "label">>),
       Op("add_variable", "coordinates", "double", <<"atom", "spatial">>),
       Op("add_string_attribute", "coordinates", "units", "angstrom"),
       Op("add_variable", "cell_lengths", "double", <<"cell_spatial">>),
       Op("add_string_attribute", "cell_lengths", "units", "angstrom"),
       Op("add_variable", "cell_angles", "double", <<"cell_angular">>),
       Op("add_string_attribute", "cell_angles", "units", "degree") >>
    \o velocities_ops(with_velocities) \o
    << Op("set_nc_mode", "DATA", 0, 0),
       Op("add_labels", "spatial", <<"xyz">>, 0),
       Op("add_labels", "cell_spatial", <<"abc">>, 0),
       Op("add_labels", "cell_angular", <<"alpha", "beta", "gamma">>, 0) >>

\* flattening that stores the first component in every slot of an atom
Flatten_first(array) ==
    [j \in 1..(3 * Len(array)) |-> array[((j - 1) \div 3) + 1][1]]

Flatten(array) ==
    [j \in 1..(3 * Len(array)) |-> array[((j - 1) \div 3) + 1][((j - 1) % 3) + 1]]

write_array(array, name) ==
    << Op("variable", name, "double", 0),
       Op("add", name, <<Len(array), 3>>, Flatten(array)) >>

write_cell(cell) ==
    << Op("variable", "cell_lengths", "double", 0),
       Op("variable", "cell_angles", "double", 0),
       Op("add", "cell_lengths", <<3>>, <<cell[1], cell[2], cell[3]>>),
       Op("add", "cell_angles", <<3>>, <<cell[4], cell[5], cell[6]>>) >>

\* initialization that declares one atom more than the frame has
write_init_ops_one_more(validated, fr) ==
    IF ~validated
    THEN initialize(Len(fr.positions) + 1, Len(fr.velocities) = 1)
         \o << Op("assert_is_valid", "", Len(fr.positions), 0) >>
    ELSE << >>

\* the container calls of write(frame) once past the step_done_ check
write_init_ops(validated, fr) ==
    IF ~validated
    THEN initialize(Len(fr.positions), Len(fr.velocities) = 1)
         \o << Op("assert_is_valid", "", Len(fr.positions), 0) >>
    ELSE << >>

\* data calls that leave the velocities out
write_data_ops_no_velocities(fr) ==
    write_cell(fr.cell) \o write_array(fr.positions, "coordinates")

write_data_ops(fr) ==
    write_cell(fr.cell) \o write_array(fr.positions, "coordinates")
    \o (IF Len(fr.velocities) = 1 THEN write_array(fr.velocities[1], "velocities")
        ELSE << >>)

\* write without the step_done_ check
write_unchecked(f, done, validated, fr) ==
    LET init == write_init_ops(validated, fr)
        r == RunOps(f, init \o write_data_ops(fr), 1)
    IN [err |-> r.err, file |-> r.file,
        validated |-> validated \/ r.done >= Len(init),
        done |-> done \/ r.err = NoError]

\* write: error raised, container afterwards, validated_ and step_done_
write(f, done, validated, fr) ==
    IF done
    THEN [err |-> OneFrameWrite, file |-> f, validated |-> validated, done |-> done]
    ELSE LET init == write_init_ops(validated, fr)
             r == RunOps(f, init \o write_data_ops(fr), 1)
         IN [err |-> r.err, file |-> r.file,
             validated |-> validated \/ r.done >= Len(init),
             done |-> r.err = NoError]

\* nsteps of a trajectory without frames
nsteps_none == Len(<<>>)

nsteps == 1

\* the largest number of container calls one write(frame) makes
MaxCalls == Len(initialize(0, TRUE)) + 1 + Len(write_cell(DefaultCell)) + 2 * Len(write_array(<<>>, "coordinates"))

\* ------------------------------------------------ inputs
\* frames handed to write(): atom i holds base + 3(i-1) + k in component k,
\* its velocity 20 more, so that every stored slot has its own value
Cells == { DefaultCell, UnitCell(10, 11, 12, 80, 90, 100) }

MakeArray(n, base) ==
    [i \in 1..n |-> Vector3D(base + 3 * (i - 1) + 1, base + 3 * (i - 1) + 2,
                             base + 3 * (i - 1) + 3)]

MakeFrame(n, base, with_velocities, cell) ==
    [cell |-> cell, positions |-> MakeArray(n, base),
     velocities |-> IF with_velocities THEN <<MakeArray(n, base + 20)>> ELSE <<>>]

InputFrames ==
    { MakeFrame(n, b, v, c) : n \in 0..MaxAtoms, b \in 0..MaxBase, v \in BOOLEAN, c \in Cells }

\* frames handed to read()/read_step() as destination
DestFrames ==
    { EmptyFrame,
      MakeFrame(1, 40, FALSE, UnitCell(15, 15, 15, 90, 90, 90)),
      MakeFrame(MaxAtoms, 50, TRUE, UnitCell(10, 11, 12, 80, 90, 100)) }

Modes == {"r", "w", "a"}
Compressions == {"DEFAULT", "GZIP"}
Steps == {0, 1}

\* containers found on disk, described by what they declare
OptInt == { <<>>, <<3>>, <<4>> }
OptScale == { <<>>, <<2>>, <<5>> }
Canon ==
    [conv |-> <<"AMBERRESTART">>, ver |-> <<"1.0">>,
     spatial |-> <<3>>, atom |-> <<1>>, cs |-> <<3>>, ca |-> <<3>>,
     hasL |-> TRUE, hasA |-> TRUE, hasC |-> TRUE, hasV |-> FALSE,
     sfL |-> <<>>, sfA |-> <<>>, sfC |-> <<>>, sfV |-> <<>>]

DimOpt(p, n) ==
    CASE n = "spatial" -> p.spatial
      [] n = "atom" -> p.atom
      [] n = "cell_spatial" -> p.cs
      [] n = "cell_angular" -> p.ca

AttrOpt(p, n) ==
    CASE n = "Conventions" -> p.conv
      [] n = "ConventionVersion" -> p.ver

VarHas(p, n) ==
    CASE n = "cell_lengths" -> p.hasL
      [] n = "cell_angles" -> p.hasA
      [] n = "coordinates" -> p.hasC
      [] n = "velocities" -> p.hasV

VarSpec(n) ==
    CASE n = "cell_lengths" -> [dims |-> <<"cell_spatial">>, off |-> 10]
      [] n = "cell_angles" -> [dims |-> <<"cell_angular">>, off |-> 80]
      [] n = "coordinates" -> [dims |-> <<"atom", "spatial">>, off |-> 0]
      [] n = "velocities" -> [dims |-> <<"atom", "spatial">>, off |-> 20]

VarScale(p, n) ==
    CASE n = "cell_lengths" -> p.sfL
      [] n = "cell_angles" -> p.sfA
      [] n = "coordinates" -> p.sfC
      [] n = "velocities" -> p.sfV

MakeContainer(p) ==
    LET dimnames == { n \in {"spatial", "atom", "cell_spatial", "cell_angular"} :
                        Len(DimOpt(p, n)) = 1 }
        dims == [n \in dimnames |-> DimOpt(p, n)[1]]
        wanted(n) == SelectSeq(VarSpec(n).dims, LAMBDA d : d \in dimnames)
        declared(n) == IF wanted(n) = <<>> /\ "spatial" \in dimnames
                       THEN <<"spatial">> ELSE wanted(n)
        sizes(n) == [i \in 1..Len(declared(n)) |-> dims[declared(n)[i]]]
        varnames == { n \in {"cell_lengths", "cell_angles", "coordinates", "velocities"} :
                        VarHas(p, n) }
    IN [mode |-> "r", phase |-> "DATA",
        gattrs |-> [n \in { a \in {"Conventions", "ConventionVersion"} :
                              Len(AttrOpt(p, a)) = 1 } |-> AttrOpt(p, n)[1]],
        dims |-> dims,
        vars |-> [n \in varnames |->
                    [type |-> "double", dims |-> declared(n), units |-> <<>>,
                     scale |-> VarScale(p, n),
                     data |-> [j \in 1..Product(sizes(n)) |-> VarSpec(n).off + j]]]]

ConventionFamily ==
    { [Canon EXCEPT !.conv = c, !.ver = v, !.spatial = s] :
        c \in { <<>>, <<"AMBERRESTART">>, <<"AMBER">> },
        v \in { <<>>, <<"1.0">>, <<"2.0">> }, s \in OptInt }

CellFamily ==
    { [Canon EXCEPT !.cs = s, !.ca = a, !.hasL = l[1], !.hasA = l[2],
                    !.sfL = f, !.sfA = g] :
        s \in OptInt, a \in OptInt, l \in BOOLEAN \X BOOLEAN,
        f \in OptScale, g \in OptScale }

ArrayFamily ==
    { [Canon EXCEPT !.atom = n, !.hasC = l[1], !.hasV = l[2], !.sfC = f, !.sfV = g] :
        n \in { <<>> } \cup { <<k>> : k \in 0..MaxAtoms }, l \in BOOLEAN \X BOOLEAN,
        f \in OptScale, g \in OptScale }

ScaleFamily ==
    { [Canon EXCEPT !.atom = <<MaxAtoms>>, !.hasV = TRUE,
                    !.sfL = f[1], !.sfA = f[2], !.sfC = f[3], !.sfV = f[4]] :
        f \in OptScale \X OptScale \X OptScale \X OptScale }

DiskContainers ==
    { MakeContainer(p) : p \in ConventionFamily \cup CellFamily \cup ArrayFamily \cup ScaleFamily }

\* ------------------------------------------------ state machine
Call(op, mode, comp, step, arg, err, ret) ==
    [op |-> op, mode |-> mode, comp |-> comp, step |-> step, arg |-> arg,
     err |-> err, ret |-> ret]

Init ==
    /\ file_ \in DiskContainers
    /\ handle = "closed"
    /\ step_done_ = FALSE
    /\ validated_ = FALSE
    /\ frame = EmptyFrame
    /\ last = Call("init", "", "", 0, EmptyFrame, NoError, 0)
    /\ written = <<>>
    /\ incomplete = FALSE

\* NcFile(path, mode): an existing container for 'r' and 'a', a new one for 'w'
NcFile(f, m) ==
    IF m = "w" THEN EmptyContainer("w") ELSE [f EXCEPT !.mode = m, !.phase = "DATA"]

\* constructor body with the compression test chained to the mode tests
ConstructError_chained(f, compression) ==
    IF f.mode = "r" /\ is_valid(f, NoAtoms) = LookupError THEN LookupError
    ELSE IF f.mode = "r" /\ is_valid(f, NoAtoms) = "false" THEN InvalidFile
    ELSE IF f.mode = "r" THEN NoError
    ELSE IF f.mode = "a" THEN AppendUnsupported
    ELSE IF compression # "DEFAULT" THEN CompressionUnsupported
    ELSE NoError

\* the error raised by the constructor body
ConstructError(f, compression) ==
    IF f.mode = "r" /\ is_valid(f, NoAtoms) = LookupError THEN LookupError
    ELSE IF f.mode = "r" /\ is_valid(f, NoAtoms) = "false" THEN InvalidFile
    ELSE IF f.mode = "a" THEN AppendUnsupported
    ELSE IF compression # "DEFAULT" THEN CompressionUnsupported
    ELSE NoError

Construct(m, compression) ==
    /\ handle = "closed"
    /\ LET opened == NcFile(file_, m)
           err == ConstructError(opened, compression)
       IN /\ file_' = opened
          /\ handle' = IF err = NoError THEN "open" ELSE "closed"
          /\ step_done_' = FALSE
          /\ validated_' = (err = NoError /\ m = "r")
          /\ last' = Call("open", m, compression, 0, frame, err, 0)
          /\ written' = IF m = "w" THEN <<>> ELSE written
          /\ incomplete' = IF m = "w" THEN FALSE ELSE incomplete
    /\ UNCHANGED frame

\* read_step call whose outcome overwrites step_done_
ReadStep_overwrites(step, dest) ==
    /\ handle = "open"
    /\ LET r == read_step(file_, step, dest)
       IN /\ frame' = r.frame
          /\ step_done_' = r.done
          /\ last' = Call("read_step", file_.mode, "", step, dest, r.err, 0)
    /\ UNCHANGED <<file_, handle, validated_, written, incomplete>>

ReadStep(step, dest) ==
    /\ handle = "open"
    /\ LET r == read_step(file_, step, dest)
       IN /\ frame' = r.frame
          /\ step_done_' = (step_done_ \/ r.done)
          /\ last' = Call("read_step", file_.mode, "", step, dest, r.err, 0)
    /\ UNCHANGED <<file_, handle, validated_, written, incomplete>>

Read(dest) ==
    /\ handle = "open"
    /\ LET r == read(file_, step_done_, dest)
       IN /\ frame' = r.frame
          /\ step_done_' = (step_done_ \/ r.done)
          /\ last' = Call("read", file_.mode, "", 0, dest, r.err, 0)
    /\ UNCHANGED <<file_, handle, validated_, written, incomplete>>

Write(fr) ==
    /\ handle = "open"
    /\ LET r == write(file_, step_done_, validated_, fr)
       IN /\ file_' = r.file
          /\ validated_' = r.validated
          /\ step_done_' = r.done
          /\ last' = Call("write", file_.mode, "", 0, fr, r.err, 0)
          /\ written' = IF r.err = NoError THEN <<fr>> ELSE written
    /\ frame' = fr
    /\ UNCHANGED <<handle, incomplete>>

Nsteps ==
    /\ handle = "open"
    /\ last' = Call("nsteps", file_.mode, "", 0, frame, NoError, nsteps)
    /\ UNCHANGED <<file_, handle, step_done_, validated_, frame, written, incomplete>>

Close ==
    /\ handle = "open"
    /\ handle' = "closed"
    /\ step_done_' = FALSE
    /\ validated_' = FALSE
    /\ last' = Call("close", file_.mode, "", 0, frame, NoError, 0)
    /\ UNCHANGED <<file_, frame, written, incomplete>>

\* write(frame) on a write-mode handle that has written nothing yet, cut
\* short after k of its container calls, the last array not being written;
\* the handle and the caller's frame are lost with the interrupted program,
\* the container stays as those calls left it
InterruptedWrite(fr, k) ==
    /\ handle = "open" /\ file_.mode = "w" /\ ~step_done_
    /\ LET ops == write_init_ops(validated_, fr) \o write_data_ops(fr)
       IN /\ k < Len(ops)
          /\ file_' = RunOps(file_, SubSeq(ops, 1, k), 1).file
    /\ handle' = "closed"
    /\ step_done_' = FALSE
    /\ validated_' = FALSE
    /\ frame' = EmptyFrame
    /\ last' = Call("write_interrupted", file_.mode, "", 0, EmptyFrame, NoError, 0)
    /\ written' = <<>>
    /\ incomplete' = TRUE

Next ==
    \/ \E m \in Modes, c \in Compressions : Construct(m, c)
    \/ \E s \in Steps, d \in DestFrames : ReadStep(s, d)
    \/ \E d \in DestFrames : Read(d)
    \/ \E fr \in InputFrames \cup {frame} : Write(fr)
    \/ \E fr \in InputFrames, k \in 0..MaxCalls : InterruptedWrite(fr, k)
    \/ Nsteps
    \/ Close

Spec == Init /\ [][Next]_vars

\* ------------------------------------------------ properties
ReadCall(c) == c.op \in {"read", "read_step"}

\* C1: on a handle opened in write mode, once a write has succeeded every
\* further write fails with the single-frame error of the writer and leaves
\* the container as the first write left it.
C1_SecondWriteFails ==
    [][(handle = "open" /\ file_.mode = "w" /\ written # <<>> /\ last'.op = "write")
        => (last'.err = OneFrameWrite /\ file_' = file_ /\ written' = written)]_vars

C1_Witness ==
    /\ handle = "open" /\ file_.mode = "w" /\ written # <<>>
    /\ last.op = "write" /\ last.err = OneFrameWrite
    /\ last.arg # written[1]

\* C2: read_step on a handle whose frame was consumed by an earlier read or
\* read_step fails with the single-frame error, also for step 0.
C2_ReadStepAfterConsumed ==
    [][(handle = "open" /\ file_.mode = "r" /\ step_done_ /\ last'.op = "read_step")
        => last'.err = OneFrameRead]_vars

\* C3: read fails with the single-frame error once the frame is consumed and
\* changes nothing; otherwise its error, its effect on the destination frame
\* and on step_done_ are those of read_step(0, frame); a read that succeeds
\* finds the frame unconsumed and leaves it consumed.
C3_ReadDelegates ==
    [][last'.op = "read" =>
        /\ step_done_ => /\ last'.err = OneFrameRead
                         /\ frame' = last'.arg
                         /\ step_done_'
        /\ ~step_done_ => /\ last'.err = read_step(file_, 0, last'.arg).err
                          /\ frame' = read_step(file_, 0, last'.arg).frame
                          /\ step_done_' = read_step(file_, 0, last'.arg).done
        /\ last'.err = NoError => (~step_done_ /\ step_done_')
        /\ file_' = file_ /\ validated_' = validated_]_vars

C3_Witness ==
    /\ handle = "open" /\ file_.mode = "r" /\ step_done_
    /\ last.op = "read" /\ last.err = OneFrameRead
    /\ Len(frame.positions) = MaxAtoms

\* C4: read_step with a step other than 0 fails with the single-frame error
\* in every handle state and changes neither the flags, nor the container,
\* nor the destination frame.
C4_BadStepChangesNothing ==
    [][(last'.op = "read_step" /\ last'.step # 0) =>
        /\ last'.err = OneFrameRead
        /\ step_done_' = step_done_ /\ validated_' = validated_
        /\ file_' = file_ /\ handle' = handle
        /\ frame' = last'.arg]_vars

C4_Witness ==
    /\ handle = "open" /\ validated_ /\ ~step_done_
    /\ variable_exists(file_, "cell_lengths") /\ variable_exists(file_, "velocities")
    /\ last.op = "read_step" /\ last.step # 0 /\ last.err = OneFrameRead
    /\ frame = last.arg /\ frame # EmptyFrame

\* C5: a frame written through a fresh write-mode handle and read back with
\* read() through a read-mode handle on the same container comes back with
\* the same number of atoms, the same positions component by component, the
\* same velocities when the written frame had some, and the same cell.
C5_RoundTrip ==
    [][(handle = "open" /\ file_.mode = "r" /\ written # <<>> /\ ~step_done_
        /\ last'.op = "read") =>
        /\ last'.err = NoError
        /\ Len(frame'.positions) = Len(written[1].positions)
        /\ \A i \in 1..Len(written[1].positions) : \A k \in 1..3 :
              frame'.positions[i][k] = written[1].positions[i][k]
        /\ Len(written[1].velocities) = 1 =>
              /\ Len(frame'.velocities) = 1
              /\ frame'.velocities[1] = written[1].velocities[1]
        /\ frame'.cell = written[1].cell]_vars

C5_Witness ==
    /\ handle = "open" /\ file_.mode = "r" /\ written # <<>>
    /\ last.op = "read" /\ last.err = NoError
    /\ Len(written[1].positions) = MaxAtoms /\ Len(written[1].velocities) = 1
    /\ written[1].cell # DefaultCell
    /\ frame = written[1]

Factor(n) == IF Len(file_.vars[n].scale) = 1 THEN file_.vars[n].scale[1] ELSE 1

CellStored ==
    /\ variable_exists(file_, "cell_lengths") /\ variable_exists(file_, "cell_angles")
    /\ dimension_exists(file_, "cell_spatial") /\ file_.dims["cell_spatial"] = 3
    /\ dimension_exists(file_, "cell_angular") /\ file_.dims["cell_angular"] = 3

C7_ScaleFactor ==
    (handle = "open" /\ ReadCall(last) /\ last.err = NoError) =>
        /\ \A i \in 1..Len(frame.positions) : \A k \in 1..3 :
              frame.positions[i][k] =
                 file_.vars["coordinates"].data[3 * (i - 1) + k] * Factor("coordinates")
        /\ variable_exists(file_, "velocities") =>
              \A i \in 1..Len(frame.positions) : \A k \in 1..3 :
                 frame.velocities[1][i][k] =
                    file_.vars["velocities"].data[3 * (i - 1) + k] * Factor("velocities")
        /\ CellStored =>
              \A k \in 1..3 :
                 /\ frame.cell[k] = file_.vars["cell_lengths"].data[k] * Factor("cell_lengths")
                 /\ frame.cell[3 + k] = file_.vars["cell_angles"].data[k] * Factor("cell_angles")

C7_Witness ==
    /\ handle = "open" /\ ReadCall(last) /\ last.err = NoError
    /\ CellStored /\ variable_exists(file_, "velocities")
    /\ Len(frame.positions) = MaxAtoms
    /\ Len(file_.vars["coordinates"].scale) = 1 /\ Len(file_.vars["velocities"].scale) = 1
    /\ Len(file_.vars["cell_lengths"].scale) = 1 /\ Len(file_.vars["cell_angles"].scale) = 1
    /\ Factor("coordinates") # Factor("velocities")
    /\ Factor("cell_lengths") # Factor("cell_angles")

\* C8: a read of step 0 on a validated container that has the atom
\* dimension and well-shaped arrays succeeds when the cell data is missing
\* (a cell variable absent, or a cell dimension absent or not 3), gives the
\* default cell and still reads the positions; when the cell data is there,
\* the cell is built from the three stored lengths and angles.
ArraysReadable ==
    /\ dimension_exists(file_, "atom") /\ variable_exists(file_, "coordinates")
    /\ Len(file_.vars["coordinates"].data) = 3 * file_.dims["atom"]
    /\ variable_exists(file_, "velocities") =>
          Len(file_.vars["velocities"].data) = 3 * file_.dims["atom"]

C8_MissingCell ==
    (handle = "open" /\ file_.mode = "r" /\ ReadCall(last) /\ last.step = 0
     /\ last.err # OneFrameRead) =>
        /\ (~CellStored /\ ArraysReadable) =>
              /\ last.err = NoError
              /\ frame.cell = DefaultCell
              /\ Len(frame.positions) = file_.dims["atom"]
              /\ \A i \in 1..Len(frame.positions) : \A k \in 1..3 :
                    frame.positions[i][k] =
                       file_.vars["coordinates"].data[3 * (i - 1) + k] * Factor("coordinates")
              /\ variable_exists(file_, "velocities") => Len(frame.velocities) = 1
        /\ (CellStored /\ last.err = NoError) =>
              \A k \in 1..3 :
                 /\ frame.cell[k] = file_.vars["cell_lengths"].data[k] * Factor("cell_lengths")
                 /\ frame.cell[3 + k] = file_.vars["cell_angles"].data[k] * Factor("cell_angles")

C8_Witness ==
    /\ handle = "open" /\ file_.mode = "r" /\ ReadCall(last) /\ last.step = 0
    /\ last.err = NoError
    /\ variable_exists(file_, "cell_lengths") /\ variable_exists(file_, "cell_angles")
    /\ ~dimension_exists(file_, "cell_spatial")
    /\ last.arg.cell # DefaultCell /\ frame.cell = DefaultCell
    /\ Len(frame.positions) = 1

\* C9 as stated: opening in read mode succeeds, with validated_ set and
\* step_done_ clear, exactly when Conventions is "AMBERRESTART",
\* ConventionVersion is "1.0" and spatial is 3; every other container is
\* refused with the format-validation error and no handle.
ValidConvention(f) ==
    /\ global_attribute(f, "Conventions") = <<"AMBERRESTART">>
    /\ global_attribute(f, "ConventionVersion") = <<"1.0">>
    /\ dimension_exists(f, "spatial") /\ f.dims["spatial"] = 3

OpenedForRead == handle = "open" /\ validated_ /\ ~step_done_ /\ last.err = NoError

C9_Original ==
    (last.op = "open" /\ last.mode = "r") =>
        /\ OpenedForRead <=> ValidConvention(file_)
        /\ ~ValidConvention(file_) => (last.err = InvalidFile /\ handle = "closed")

\* C9 amended: opening in read mode succeeds exactly when the three checks
\* pass and the compression is the default one.  A wrong or absent attribute
\* or a spatial dimension of another size gives the format-validation error,
\* an absent spatial dimension (both attributes right) the lookup error of
\* the container, a non-default compression on a valid container the
\* compression error; a refused open returns no handle and touches no frame.
\* The atom dimension plays no part.
C9_OpenRead ==
    (last.op = "open" /\ last.mode = "r") =>
        /\ OpenedForRead <=> (ValidConvention(file_) /\ last.comp = "DEFAULT")
        /\ (\/ global_attribute(file_, "Conventions") # <<"AMBERRESTART">>
            \/ global_attribute(file_, "ConventionVersion") # <<"1.0">>
            \/ (dimension_exists(file_, "spatial") /\ file_.dims["spatial"] # 3))
              => last.err = InvalidFile
        /\ (/\ global_attribute(file_, "Conventions") = <<"AMBERRESTART">>
            /\ global_attribute(file_, "ConventionVersion") = <<"1.0">>
            /\ ~dimension_exists(file_, "spatial"))
              => last.err = LookupError
        /\ (ValidConvention(file_) /\ last.comp # "DEFAULT")
              => last.err = CompressionUnsupported
        /\ last.err # NoError => (handle = "closed" /\ ~validated_ /\ ~step_done_)
        /\ frame = last.arg

C9_Witness ==
    /\ last.op = "open" /\ last.mode = "r" /\ last.comp = "DEFAULT"
    /\ OpenedForRead /\ ValidConvention(file_)
    /\ ~dimension_exists(file_, "atom")

\* C10: opening in append mode always fails; opening with a compression
\* other than the default fails in every mode; opening in write mode with
\* the default compression always succeeds, on a container that no
\* validation would accept, and validated_ and step_done_ stay false on that
\* handle until a frame is written.
C10_Construction ==
    /\ (last.op = "open" /\ last.mode = "a") =>
          (last.err = AppendUnsupported /\ handle = "closed")
    /\ (last.op = "open" /\ last.comp # "DEFAULT") =>
          (last.err # NoError /\ handle = "closed")
    /\ (last.op = "open" /\ last.mode = "w" /\ last.comp = "DEFAULT") =>
          /\ last.err = NoError /\ handle = "open"
          /\ is_valid(file_, NoAtoms) # "true"
    /\ (handle = "open" /\ file_.mode = "w" /\ written = <<>>) =>
          (~validated_ /\ ~step_done_)

C10_Witness ==
    /\ handle = "open" /\ file_.mode = "w" /\ written = <<>>
    /\ ReadCall(last) /\ last.step = 0 /\ last.err = LookupError
    /\ ~validated_ /\ ~step_done_

\* C11: nsteps returns 1 on every handle, whatever was read, written or
\* refused before, and changes neither the flags nor the container.
C11_Nsteps ==
    [][last'.op = "nsteps" =>
        /\ last'.ret = 1
        /\ step_done_' = step_done_ /\ validated_' = validated_
        /\ file_' = file_ /\ handle' = handle /\ frame' = frame]_vars

C11_Witness ==
    /\ handle = "open" /\ file_.mode = "r" /\ step_done_
    /\ last.op = "nsteps" /\ last.ret = 1
    /\ Len(frame.positions) = MaxAtoms

\* C12: on an open handle step_done_ never goes back to false; once it is
\* set, write fails with the writer's single-frame error and read with the
\* reader's, whichever direction consumed the frame, and these refused calls
\* change neither the container nor the flags.
C12_ConsumedIsTerminal ==
    [][(handle = "open" /\ handle' = "open" /\ step_done_) =>
        /\ step_done_'
        /\ last'.op = "write" =>
              (last'.err = OneFrameWrite /\ file_' = file_ /\ validated_' = validated_)
        /\ last'.op = "read" =>
              (last'.err = OneFrameRead /\ file_' = file_ /\ validated_' = validated_
               /\ frame' = last'.arg)]_vars

C12_Witness ==
    /\ handle = "open" /\ file_.mode = "r" /\ step_done_
    /\ last.op = "write" /\ last.err = OneFrameWrite

\* C13: a container left by an interrupted write is refused by validation
\* when it is opened for reading, and no read() on it ever succeeds.
C13_InterruptedWriteDetected ==
    /\ (incomplete /\ last.op = "open" /\ last.mode = "r") =>
          (is_valid(file_, NoAtoms) # "true" /\ handle = "closed")
    /\ (incomplete /\ handle = "open" /\ file_.mode = "r" /\ last.op = "read") =>
          last.err # NoError

\* C14: the first write on a write-mode handle initializes the container:
\* afterwards is_valid(container, atom count of the frame) holds, with the
\* two convention attributes, spatial = 3, atom = atom count, cell_spatial =
\* cell_angular = 3, DATA phase and validated_ set.  A write on a validated
\* handle, and so every write on a read-mode handle, declares nothing.
Schema(f) ==
    [gattrs |-> f.gattrs, dims |-> f.dims,
     vars |-> [n \in DOMAIN f.vars |->
                 [type |-> f.vars[n].type, dims |-> f.vars[n].dims,
                  units |-> f.vars[n].units, scale |-> f.vars[n].scale]]]

C14_WriteInitialization ==
    [][last'.op = "write" =>
        /\ (file_.mode = "w" /\ ~validated_) =>
              /\ last'.err = NoError
              /\ is_valid(file_', Len(last'.arg.positions)) = "true"
              /\ global_attribute(file_', "Conventions") = <<"AMBERRESTART">>
              /\ global_attribute(file_', "ConventionVersion") = <<"1.0">>
              /\ dimension_exists(file_', "atom")
              /\ file_'.dims["atom"] = Len(last'.arg.positions)
              /\ file_'.dims["spatial"] = 3
              /\ file_'.dims["cell_spatial"] = 3 /\ file_'.dims["cell_angular"] = 3
              /\ file_'.phase = "DATA"
              /\ validated_'
        /\ validated_ => (Schema(file_') = Schema(file_) /\ file_'.phase = file_.phase)
        /\ file_.mode = "r" => validated_]_vars

C14_Witness ==
    /\ handle = "open" /\ file_.mode = "w" /\ validated_
    /\ last.op = "write" /\ last.err = NoError
    /\ Len(last.arg.positions) = 0 /\ file_.dims["atom"] = 0
    /\ file_.phase = "DATA"

\* C15: no container call of the codec is refused for being issued in the
\* wrong phase; on a handle the schema changes only from DEFINE phase, data
\* is stored and read only in DATA phase, and a container in DATA phase
\* never returns to DEFINE.
StoredData(f) == [n \in DOMAIN f.vars |-> f.vars[n].data]

C15_TwoPhase ==
    [][/\ last'.err # PhaseError
       /\ (handle = "open" /\ handle' = "open") =>
             /\ file_.phase = "DATA" => file_'.phase = "DATA"
             /\ Schema(file_') # Schema(file_) => file_.phase = "DEFINE"
             /\ StoredData(file_') # StoredData(file_) => file_'.phase = "DATA"
             /\ (ReadCall(last') /\ last'.err = NoError) => file_.phase = "DATA"]_vars

C15_Witness ==
    /\ handle = "open" /\ file_.mode = "w" /\ file_.phase = "DATA"
    /\ last.op = "write" /\ last.err = NoError
    /\ variable_exists(file_, "velocities")
    /\ Len(file_.vars["velocities"].data) = 3 * MaxAtoms
    /\ file_.vars["cell_angular"].data = <<"alpha", "beta", "gamma">>

\* C16: a read of step 0 that fails with a lookup error leaves step_done_
\* false and the destination frame as it was before the call.
C16_LookupFailureKeepsFrame ==
    [][(ReadCall(last') /\ last'.step = 0 /\ last'.err = LookupError) =>
        (~step_done_' /\ frame' = last'.arg)]_vars

\* C17: no call of the codec gives a variable a scale_factor it did not
\* have; a container produced by write carries no scale_factor and stores
\* the values of the written frame as they are, also when that frame was read
\* from a container with scale factors; read back, it gives that frame again.
C17_ScaleAsymmetry ==
    [][/\ \A n \in DOMAIN file_'.vars :
             file_'.vars[n].scale # <<>> =>
                (n \in DOMAIN file_.vars /\ file_.vars[n].scale = file_'.vars[n].scale)
       /\ written' # <<>> =>
             /\ \A n \in DOMAIN file_'.vars : file_'.vars[n].scale = <<>>
             /\ file_'.vars["coordinates"].data
                   = [j \in 1..(3 * Len(written'[1].positions)) |->
                        written'[1].positions[((j - 1) \div 3) + 1][((j - 1) % 3) + 1]]
             /\ Len(written'[1].velocities) = 1 =>
                   file_'.vars["velocities"].data
                      = [j \in 1..(3 * Len(written'[1].positions)) |->
                           written'[1].velocities[1][((j - 1) \div 3) + 1][((j - 1) % 3) + 1]]
             /\ file_'.vars["cell_lengths"].data = SubSeq(written'[1].cell, 1, 3)
             /\ file_'.vars["cell_angles"].data = SubSeq(written'[1].cell, 4, 6)
       /\ (written # <<>> /\ handle = "open" /\ file_.mode = "r" /\ ReadCall(last')
           /\ last'.step = 0 /\ last'.err # OneFrameRead) =>
             /\ last'.err = NoError
             /\ frame'.positions = written[1].positions
             /\ frame'.cell = written[1].cell
             /\ Len(written[1].velocities) = 1 => frame'.velocities = written[1].velocities
             /\ (Len(written[1].velocities) = 0 /\ Len(last'.arg.velocities) = 0) =>
                   frame'.velocities = <<>>]_vars

C17_Witness ==
    /\ handle = "open" /\ file_.mode = "r" /\ written # <<>>
    /\ ReadCall(last) /\ last.err = NoError /\ frame = written[1]
    /\ Len(frame.positions) = MaxAtoms
    /\ frame.positions[1] = Vector3D(5, 10, 15)
    /\ Len(frame.velocities) = 1 /\ frame.velocities[1][1] = Vector3D(42, 44, 46)
    /\ frame.cell = UnitCell(22, 24, 26, 81, 82, 83)
    /\ \A n \in DOMAIN file_.vars : file_.vars[n].scale = <<>>

\* C18 as stated: after a successful read of step 0 the destination frame has
\* as many atoms as the atom dimension and carries velocities exactly when the
\* container has a velocities variable, whatever the frame held before.
C18_Original ==
    (handle = "open" /\ ReadCall(last) /\ last.err = NoError) =>
        /\ Len(frame.positions) = file_.dims["atom"]
        /\ Len(frame.velocities) = 1 <=> variable_exists(file_, "velocities")

\* C18 amended: after a successful read of step 0 the destination frame has
\* as many atoms as the atom dimension; it carries velocities exactly when
\* the container has a velocities variable or the frame carried velocities
\* before the call, and the velocity array has one entry per atom.
C18_FrameShape ==
    (handle = "open" /\ ReadCall(last) /\ last.err = NoError) =>
        /\ Len(frame.positions) = file_.dims["atom"]
        /\ Len(frame.velocities) = 1 <=>
              (variable_exists(file_, "velocities") \/ Len(last.arg.velocities) = 1)
        /\ Len(frame.velocities) = 1 => Len(frame.velocities[1]) = file_.dims["atom"]

C18_Witness ==
    /\ handle = "open" /\ ReadCall(last) /\ last.err = NoError
    /\ ~variable_exists(file_, "velocities")
    /\ Len(last.arg.velocities) = 1 /\ Len(last.arg.positions) = MaxAtoms
    /\ file_.dims["atom"] = 1
    /\ Len(frame.velocities) = 1 /\ Len(frame.velocities[1]) = 1

\* C19: on an open handle step_done_ implies validated_, and validated_
\* never goes from true to false while the handle stays open.
C19_ConsumedImpliesValidated ==
    [][/\ (handle' = "open" /\ step_done_') => validated_'
       /\ (handle = "open" /\ handle' = "open" /\ validated_) => validated_']_vars

C19_Witness ==
    /\ handle = "open" /\ file_.mode = "w" /\ step_done_ /\ validated_
    /\ last.op = "read_step" /\ last.err = OneFrameRead

====
